---- MODULE Spec2Model ----
(***************************************************************************)
(* CPVRSettings (xbmc/pvr/PVRSettings.cpp): a cache of cloned settings,    *)
(* filled by Init, refreshed by OnSettingsLoaded, updated entry by entry   *)
(* by OnSettingChanged and read by the typed accessors, every access of    *)
(* the map m_settings being made under the lock m_critSection.             *)
(*                                                                         *)
(* A shared_ptr is modelled as a sequence of length at most one: <<>> is   *)
(* the null pointer and <<s>> points to the setting s.  The std::map       *)
(* m_settings is a function whose DOMAIN is the set of its keys.           *)
(***************************************************************************)
EXTENDS Integers, Sequences, FiniteSets, TLC

\* ------------------------------------------------------------------ bounds

\* Calls (notifications and accessor calls) the worker threads make in a run.
MaxCalls == 2

\* Changes the settings registry undergoes in a run.
MaxRegistryChanges == 1

\* PVR clients that can be enabled.
MaxClients == 3

\* Entries of the list a settings dialog hands to MarginTimeFiller.
MaxListLen == 2

\* ---------------------------------------------------------------- settings

Owner == "owner"
Workers == {"w1", "w2", "w3"}
Threads == {Owner} \cup Workers

\* Position of a worker in the order in which idle workers are handed calls.
WorkerRank(t) == CASE t = "w1" -> 1 [] t = "w2" -> 2 [] OTHER -> 3

\* The setting identifiers of the run, one per setting type.
Ids == {"b", "i", "s"}

\* std::set<std::string> iterates in key order.
Rank(id) == CASE id = "b" -> 1 [] id = "i" -> 2 [] OTHER -> 3

First(S) == CHOOSE x \in S : \A y \in S : Rank(x) <= Rank(y)

\* SettingType of the setting an identifier names in the registry.
KindOf(id) == CASE id = "b" -> "Boolean" [] id = "i" -> "Integer" [] OTHER -> "String"

ValuesOf(kind) ==
  CASE kind = "Boolean" -> {FALSE, TRUE}
    [] kind = "Integer" -> {-1, 5}
    [] OTHER -> {"", "tv"}

\* The settings (CSettingBool, CSettingInt, CSettingString) with identifier id.
SettingsOf(id) ==
  {[id |-> id, type |-> KindOf(id), value |-> v] : v \in ValuesOf(KindOf(id))}

NullPtr == <<>>

\* Faulty variant: the copy is made without the value, which is left at the type's zero.
Clone_NoValue(setting, id) ==
  [id |-> id, type |-> setting.type,
   value |-> CASE setting.type = "Boolean" -> FALSE
               [] setting.type = "Integer" -> 0
               [] OTHER -> ""]

\* setting->Clone(id): a copy of the same type and value under identifier id.
Clone(setting, id) == [id |-> id, type |-> setting.type, value |-> setting.value]

\* The sets of names a cache is constructed with.
SettingNameSets == {{"b", "i"}}

\* The value a setting holds when the run starts.
InitialValue(id) ==
  CASE KindOf(id) = "Boolean" -> FALSE [] KindOf(id) = "Integer" -> 5 [] OTHER -> "tv"

\* The registries a cache is constructed against, every known setting at its
\* initial value: one knows the names the cache asks for and not "s", the
\* other does not know "b".  A setting the registry knows stays known.
InitialRegistries ==
  {[id \in Ids |-> IF id \in K
                   THEN <<[id |-> id, type |-> KindOf(id), value |-> InitialValue(id)]>>
                   ELSE NullPtr] : K \in {{"b", "i"}, {"i", "s"}}}

\* ------------------------------------------------------------------- state

VARIABLES
  scenario,            \* what the run exercises: "lifecycle", "notify", "fair",
                       \* "reload" or "gui"
  registry,            \* CSettings: identifier -> pointer to its setting, null if unknown
  handlerRegistered,   \* the cache is a registered ISettingsHandler
  callbackRegistered,  \* the cache is a registered ISettingCallback
  ctorNames,           \* the constructor's argument settingNames
  m_settings,          \* the map: identifier -> SettingPtr
  m_critSection,       \* the thread holding the lock, "" if free
  pc,                  \* each thread's position
  op,                  \* the member function a thread is in
  settingName,         \* an accessor's parameter / Init's loop variable
  settingNames,        \* Init's parameter: the names still to iterate
  setting,             \* Init's local / OnSettingChanged's parameter
  ret,                 \* an accessor's return value, <<v>>
  calls,               \* calls made by the workers so far
  regChanges,          \* registry changes so far
  \* history variables: they record what happened and steer nothing
  notified,            \* a notification has been delivered to the cache
  ctorSeen,            \* per identifier, <<p>> once the constructor's Init has
                       \* looked it up and got the pointer p
  lastStored,          \* per identifier, the clone last stored in the map
  before,              \* the map as a notification in progress found it
  quiet,               \* nothing but this OnSettingsLoaded has acted since its call
  how,                 \* how an accessor's find ended
  reloadKeys,          \* <<K>> while OnSettingsLoaded calls are in progress whose
                       \* lookups all succeed, K the keys the first of them met
  raced,               \* per OnSettingChanged call, the threads whose reload had
                       \* cleared the map and not yet inserted the call's
                       \* identifier when the call assigned its entry
  \* the settings dialog's side (the static member functions)
  enabledClients,      \* CPVRClients::EnabledClientAmount()
  list,                \* MarginTimeFiller's in-out parameter list
  current,             \* MarginTimeFiller's in-out parameter current
  listBefore,          \* history: <<l>>, l the list the last MarginTimeFiller call was handed
  isVisible            \* <<c>>, c the arguments and the result of the last IsSettingVisible call

vars == <<scenario, registry, handlerRegistered, callbackRegistered, ctorNames, m_settings,
          m_critSection, pc, op, settingName, settingNames, setting, ret,
          calls, regChanges, notified, ctorSeen, lastStored, before, quiet, how,
          reloadKeys, raced, enabledClients, list, current, listBefore, isVisible>>

\* The state of the cache and the history of its run.
cacheVars == <<scenario, registry, handlerRegistered, callbackRegistered, ctorNames,
               m_settings, m_critSection, pc, op, settingName, settingNames, setting, ret,
               calls, regChanges, notified, ctorSeen, lastStored, before, quiet, how,
               reloadKeys, raced>>

\* The state the static member functions read and write.
guiVars == <<enabledClients, list, current, listBefore, isVisible>>

locals == <<op, settingName, settingNames, setting, ret>>

EmptyMap == [k \in {} |-> NullPtr]

Put(map, key, ptr) == [k \in DOMAIN map \cup {key} |-> IF k = key THEN ptr ELSE map[k]]

InitCommon ==
  /\ registry \in InitialRegistries
  /\ ctorNames \in SettingNameSets
  /\ handlerRegistered = FALSE
  /\ callbackRegistered = FALSE
  /\ m_settings = EmptyMap
  /\ m_critSection = ""
  /\ pc = [t \in Threads |-> IF t = Owner THEN "init_loop" ELSE "idle"]
  /\ op = [t \in Threads |-> IF t = Owner THEN "CPVRSettings" ELSE ""]
  /\ settingName = [t \in Threads |-> ""]
  /\ settingNames = [t \in Threads |-> IF t = Owner THEN ctorNames ELSE {}]
  /\ setting = [t \in Threads |-> NullPtr]
  /\ ret = [t \in Threads |-> <<>>]
  /\ calls = 0
  /\ regChanges = 0
  /\ notified = FALSE
  /\ ctorSeen = [id \in Ids |-> <<>>]
  /\ lastStored = [id \in Ids |-> NullPtr]
  /\ before = [t \in Workers |-> EmptyMap]
  /\ quiet = [t \in Workers |-> FALSE]
  /\ how = [t \in Workers |-> ""]
  /\ reloadKeys = <<>>
  /\ raced = [t \in Workers |-> {}]

\* No settings dialog is open.
NoDialog ==
  /\ enabledClients = 0
  /\ list = <<>>
  /\ current = 0
  /\ listBefore = <<>>
  /\ isVisible = <<>>

\* The whole life of a cache, the registry changing under it, two threads
\* calling into it.
Init == scenario = "lifecycle" /\ InitCommon /\ NoDialog

\* A constructed cache under OnSettingChanged and accessor calls from three
\* threads.
InitNotify == scenario = "notify" /\ InitCommon /\ NoDialog

\* A constructed cache under OnSettingsLoaded calls from three threads.
InitReload == scenario = "reload" /\ InitCommon /\ NoDialog

\* A constructed cache under notifications and accessor calls from two
\* threads, every thread being scheduled fairly.
InitFair == scenario = "fair" /\ InitCommon /\ NoDialog

\* -------------------------------------------------------------------- lock

\* CSingleLock lock(m_critSection): blocks until the lock is free.
Acquire(t) == m_critSection = "" /\ m_critSection' = t

\* ~CSingleLock at the end of the scope: unlocks the lock if t holds it.
Release(t) == m_critSection' = IF m_critSection = t THEN "" ELSE m_critSection

\* -------------------------------------------------------- the registry side

\* CServiceBroker::GetSettings().GetSetting(name): null if the name is unknown.
GetSetting(name) == registry[name]

\* The registry changes the value of a setting it knows.
Registry_SetValue(id) ==
  /\ regChanges < MaxRegistryChanges
  /\ registry[id] # NullPtr
  /\ \E s \in SettingsOf(id) :
       /\ s # registry[id][1]
       /\ registry' = [registry EXCEPT ![id] = <<s>>]
  /\ regChanges' = regChanges + 1
  /\ UNCHANGED <<handlerRegistered, callbackRegistered, ctorNames, m_settings,
                 m_critSection, pc, locals, calls>>

\* A setting becomes known to the registry.
Registry_Define(id) ==
  /\ regChanges < MaxRegistryChanges
  /\ registry[id] = NullPtr
  /\ \E s \in SettingsOf(id) : registry' = [registry EXCEPT ![id] = <<s>>]
  /\ regChanges' = regChanges + 1
  /\ UNCHANGED <<handlerRegistered, callbackRegistered, ctorNames, m_settings,
                 m_critSection, pc, locals, calls>>

\* The registry calls OnSettingsLoaded of its registered settings handlers.
DeliversSettingsLoaded == handlerRegistered

\* The registry calls OnSettingChanged of its registered setting callbacks.
DeliversSettingChanged == callbackRegistered

\* ----------------------------------------------------- CPVRSettings::Init

\* Faulty variant: the pair is inserted under the first key of the key order.
Insert_FirstKey(map, name, ptr) ==
  IF First(Ids) \in DOMAIN map THEN map ELSE Put(map, First(Ids), ptr)

\* Faulty variant: the pair is stored with m_settings[name] = ptr.
Insert_Overwrite(map, name, ptr) == Put(map, name, ptr)

\* m_settings.insert(std::make_pair(name, ptr)): no effect if the key exists.
Insert(map, name, ptr) == IF name \in DOMAIN map THEN map ELSE Put(map, name, ptr)

\* Faulty variant: the loop ends at the first unknown name (break).
AfterUnknown_Break(names, name) == {}

\* The names left to iterate after the lookup of name failed: continue.
AfterUnknown(names, name) == names \ {name}

\* for (auto settingName : settingNames) { setting = GetSetting(settingName);
\* if (!setting) { log; continue; }
Init_GetSetting(t) ==
  /\ pc[t] = "init_loop"
  /\ settingNames[t] # {}
  /\ LET name == First(settingNames[t])
         found == GetSetting(name)
     IN /\ settingName' = [settingName EXCEPT ![t] = name]
        /\ setting' = [setting EXCEPT ![t] = found]
        /\ settingNames' = [settingNames EXCEPT ![t] =
                              IF found = NullPtr THEN AfterUnknown(@, name)
                              ELSE @ \ {name}]
        /\ pc' = [pc EXCEPT ![t] = IF found = NullPtr THEN "init_loop" ELSE "init_lock"]
  /\ UNCHANGED <<registry, handlerRegistered, callbackRegistered, ctorNames,
                 m_settings, m_critSection, op, ret, calls, regChanges>>

\* Faulty variant: Init goes on to its insert without taking the lock.
Init_NoLock(t) ==
  /\ pc[t] = "init_lock"
  /\ pc' = [pc EXCEPT ![t] = "init_insert"]
  /\ UNCHANGED <<registry, handlerRegistered, callbackRegistered, ctorNames,
                 m_settings, m_critSection, locals, calls, regChanges>>

\* CSingleLock lock(m_critSection);
Init_Lock(t) ==
  /\ pc[t] = "init_lock"
  /\ Acquire(t)
  /\ pc' = [pc EXCEPT ![t] = "init_insert"]
  /\ UNCHANGED <<registry, handlerRegistered, callbackRegistered, ctorNames,
                 m_settings, locals, calls, regChanges>>

\* Faulty variant: the lock taken for an insert is still held after it.
Init_Insert_KeepLock(t) ==
  /\ pc[t] = "init_insert"
  /\ m_settings' = Insert(m_settings, settingName[t],
                          <<Clone(setting[t][1], settingName[t])>>)
  /\ setting' = [setting EXCEPT ![t] = NullPtr]
  /\ pc' = [pc EXCEPT ![t] = "init_loop"]
  /\ UNCHANGED <<registry, handlerRegistered, callbackRegistered, ctorNames,
                 m_critSection, op, settingName, settingNames, ret, calls, regChanges>>

\* m_settings.insert(std::make_pair(settingName, setting->Clone(settingName))); }
Init_Insert(t) ==
  /\ pc[t] = "init_insert"
  /\ m_settings' = Insert(m_settings, settingName[t],
                          <<Clone(setting[t][1], settingName[t])>>)
  /\ Release(t)
  /\ setting' = [setting EXCEPT ![t] = NullPtr]
  /\ pc' = [pc EXCEPT ![t] = "init_loop"]
  /\ UNCHANGED <<registry, handlerRegistered, callbackRegistered, ctorNames,
                 op, settingName, settingNames, ret, calls, regChanges>>

\* The loop ends: Init returns to the constructor or to OnSettingsLoaded.
Init_Return(t) ==
  /\ pc[t] = "init_loop"
  /\ settingNames[t] = {}
  /\ pc' = [pc EXCEPT ![t] = IF op[t] = "CPVRSettings" THEN "ctor_handler" ELSE "return"]
  /\ settingName' = [settingName EXCEPT ![t] = ""]
  /\ setting' = [setting EXCEPT ![t] = NullPtr]
  /\ UNCHANGED <<registry, handlerRegistered, callbackRegistered, ctorNames,
                 m_settings, m_critSection, op, settingNames, ret, calls, regChanges>>

\* ------------------------------------------- constructor and destructor

\* GetSettingsManager()->RegisterSettingsHandler(this);
Ctor_RegisterSettingsHandler ==
  /\ pc[Owner] = "ctor_handler"
  /\ handlerRegistered' = TRUE
  /\ pc' = [pc EXCEPT ![Owner] = "ctor_callback"]
  /\ UNCHANGED <<registry, callbackRegistered, ctorNames, m_settings, m_critSection,
                 locals, calls, regChanges>>

\* GetSettings().RegisterCallback(this, settingNames); the constructor returns.
Ctor_RegisterCallback ==
  /\ pc[Owner] = "ctor_callback"
  /\ callbackRegistered' = TRUE
  /\ pc' = [pc EXCEPT ![Owner] = "alive"]
  /\ op' = [op EXCEPT ![Owner] = ""]
  /\ UNCHANGED <<registry, handlerRegistered, ctorNames, m_settings, m_critSection,
                 settingName, settingNames, setting, ret, calls, regChanges>>

\* ~CPVRSettings: GetSettings().UnregisterCallback(this);
Dtor_UnregisterCallback ==
  /\ pc[Owner] = "alive"
  /\ \A w \in Workers : op[w] \notin {"GetBoolValue", "GetIntValue", "GetStringValue"}
  /\ callbackRegistered' = FALSE
  /\ pc' = [pc EXCEPT ![Owner] = "dtor_handler"]
  /\ op' = [op EXCEPT ![Owner] = "~CPVRSettings"]
  /\ UNCHANGED <<registry, handlerRegistered, ctorNames, m_settings, m_critSection,
                 settingName, settingNames, setting, ret, calls, regChanges>>

\* Faulty variant: the destructor ends without unregistering the settings handler.
Dtor_KeepSettingsHandler ==
  /\ pc[Owner] = "dtor_handler"
  /\ pc' = [pc EXCEPT ![Owner] = "dtor_end"]
  /\ UNCHANGED <<registry, handlerRegistered, callbackRegistered, ctorNames,
                 m_settings, m_critSection, locals, calls, regChanges>>

\* GetSettingsManager()->UnregisterSettingsHandler(this); the body ends.
Dtor_UnregisterSettingsHandler ==
  /\ pc[Owner] = "dtor_handler"
  /\ handlerRegistered' = FALSE
  /\ pc' = [pc EXCEPT ![Owner] = "dtor_end"]
  /\ UNCHANGED <<registry, callbackRegistered, ctorNames, m_settings, m_critSection,
                 locals, calls, regChanges>>

\* --------------------------------------------------------- worker threads

\* The workers that take calls.
Callers == IF scenario \in {"notify", "reload"} THEN Workers ELSE {"w1", "w2"}

\* The calls the workers make in a run.
CallBudget == IF scenario \in {"notify", "reload"} THEN MaxCalls + 1 ELSE MaxCalls

\* The worker that makes the next call: the idle workers are interchangeable,
\* the first of them takes it.
NextCaller(t) ==
  /\ t \in Callers
  /\ pc[t] = "idle"
  /\ calls < CallBudget
  /\ \A u \in Callers : pc[u] = "idle" => WorkerRank(t) <= WorkerRank(u)

\* A call returns to its caller.
Return(t) ==
  /\ t \in Workers
  /\ pc[t] = "return"
  /\ pc' = [pc EXCEPT ![t] = "idle"]
  /\ op' = [op EXCEPT ![t] = ""]
  /\ settingName' = [settingName EXCEPT ![t] = ""]
  /\ setting' = [setting EXCEPT ![t] = NullPtr]
  /\ ret' = [ret EXCEPT ![t] = <<>>]
  /\ UNCHANGED <<registry, handlerRegistered, callbackRegistered, ctorNames,
                 m_settings, m_critSection, settingNames, calls, regChanges>>

\* ------------------------------------------ CPVRSettings::OnSettingsLoaded

\* The registry notifies the cache of a bulk reload.
OnSettingsLoaded_Call(t) ==
  /\ NextCaller(t)
  /\ DeliversSettingsLoaded
  /\ pc' = [pc EXCEPT ![t] = "osl_lock"]
  /\ op' = [op EXCEPT ![t] = "OnSettingsLoaded"]
  /\ calls' = calls + 1
  /\ UNCHANGED <<registry, handlerRegistered, callbackRegistered, ctorNames,
                 m_settings, m_critSection, settingName, settingNames, setting,
                 ret, regChanges>>

\* { CSingleLock lock(m_critSection);
OnSettingsLoaded_Lock(t) ==
  /\ pc[t] = "osl_lock"
  /\ Acquire(t)
  /\ pc' = [pc EXCEPT ![t] = "osl_clear"]
  /\ UNCHANGED <<registry, handlerRegistered, callbackRegistered, ctorNames,
                 m_settings, locals, calls, regChanges>>

\* Faulty variant: the keys are collected after the map has been cleared.
CollectNames_AfterClear(map) == {}

\* Faulty variant: the collecting loop ends after the first key.
CollectNames_First(map) == IF DOMAIN map = {} THEN {} ELSE {First(DOMAIN map)}

\* Faulty variant: only the keys requested at construction are collected.
CollectNames_Requested(map) == DOMAIN map \cap ctorNames

\* The names OnSettingsLoaded hands to Init: the keys of the map.
CollectNames(map) == DOMAIN map

\* Faulty variant: the map is rebuilt from the registry before the lock is
\* released, so that no other thread meets the cleared map.
OnSettingsLoaded_Clear_Atomic(t) ==
  /\ pc[t] = "osl_clear"
  /\ settingNames' = [settingNames EXCEPT ![t] = {}]
  /\ m_settings' = [k \in {n \in CollectNames(m_settings) : GetSetting(n) # NullPtr}
                      |-> <<Clone(GetSetting(k)[1], k)>>]
  /\ Release(t)
  /\ pc' = [pc EXCEPT ![t] = "init_loop"]
  /\ UNCHANGED <<registry, handlerRegistered, callbackRegistered, ctorNames,
                 op, settingName, setting, ret, calls, regChanges>>

\* Faulty variant: the scope of the lock is not closed before Init is called.
OnSettingsLoaded_Clear_KeepLock(t) ==
  /\ pc[t] = "osl_clear"
  /\ settingNames' = [settingNames EXCEPT ![t] = CollectNames(m_settings)]
  /\ m_settings' = EmptyMap
  /\ pc' = [pc EXCEPT ![t] = "init_loop"]
  /\ UNCHANGED <<registry, handlerRegistered, callbackRegistered, ctorNames,
                 m_critSection, op, settingName, setting, ret, calls, regChanges>>

\* for (settingName : m_settings) settingNames.insert(settingName.first);
\* m_settings.clear(); }  Init(settingNames);
OnSettingsLoaded_Clear(t) ==
  /\ pc[t] = "osl_clear"
  /\ settingNames' = [settingNames EXCEPT ![t] = CollectNames(m_settings)]
  /\ m_settings' = EmptyMap
  /\ Release(t)
  /\ pc' = [pc EXCEPT ![t] = "init_loop"]
  /\ UNCHANGED <<registry, handlerRegistered, callbackRegistered, ctorNames,
                 op, settingName, setting, ret, calls, regChanges>>

\* ------------------------------------------ CPVRSettings::OnSettingChanged

\* Faulty variant: the lock is taken before the handle is tested.
OnSettingChanged_Call_LockFirst(t) ==
  /\ NextCaller(t)
  /\ DeliversSettingChanged
  /\ \/ /\ setting' = [setting EXCEPT ![t] = NullPtr]
        /\ Acquire(t)
        /\ pc' = [pc EXCEPT ![t] = "return"]
     \/ /\ \E id \in Ids : \E s \in SettingsOf(id) :
             setting' = [setting EXCEPT ![t] = <<s>>]
        /\ pc' = [pc EXCEPT ![t] = "osc_lock"]
        /\ UNCHANGED m_critSection
  /\ op' = [op EXCEPT ![t] = "OnSettingChanged"]
  /\ calls' = calls + 1
  /\ UNCHANGED <<registry, handlerRegistered, callbackRegistered, ctorNames,
                 m_settings, settingName, settingNames, ret, regChanges>>

\* The registry notifies the cache of a change of one setting; the cache does
\* not check that the setting is one it asked for.  if (setting == nullptr) return;
OnSettingChanged_Call(t) ==
  /\ NextCaller(t)
  /\ DeliversSettingChanged
  /\ \/ /\ setting' = [setting EXCEPT ![t] = NullPtr]
        /\ pc' = [pc EXCEPT ![t] = "return"]
     \/ /\ \E id \in Ids : \E s \in SettingsOf(id) :
             setting' = [setting EXCEPT ![t] = <<s>>]
        /\ pc' = [pc EXCEPT ![t] = "osc_lock"]
  /\ op' = [op EXCEPT ![t] = "OnSettingChanged"]
  /\ calls' = calls + 1
  /\ UNCHANGED <<registry, handlerRegistered, callbackRegistered, ctorNames,
                 m_settings, m_critSection, settingName, settingNames, ret,
                 regChanges>>

\* CSingleLock lock(m_critSection);
OnSettingChanged_Lock(t) ==
  /\ pc[t] = "osc_lock"
  /\ Acquire(t)
  /\ pc' = [pc EXCEPT ![t] = "osc_index"]
  /\ UNCHANGED <<registry, handlerRegistered, callbackRegistered, ctorNames,
                 m_settings, locals, calls, regChanges>>

\* m_settings[key]: a reference to the entry of key, which is inserted
\* holding a null pointer if the map has no such key.
Index(map, key) == IF key \in DOMAIN map THEN map ELSE Put(map, key, NullPtr)

\* m_settings[setting->GetId()]
OnSettingChanged_Index(t) ==
  /\ pc[t] = "osc_index"
  /\ m_settings' = Index(m_settings, setting[t][1].id)
  /\ pc' = [pc EXCEPT ![t] = "osc_assign"]
  /\ UNCHANGED <<registry, handlerRegistered, callbackRegistered, ctorNames,
                 m_critSection, locals, calls, regChanges>>

\* Faulty variant: the map is emptied before the entry is assigned.
Assign_ClearFirst(map, h) == Put(EmptyMap, h.id, <<Clone(h, h.id)>>)

\* Faulty variant: the assignment keeps a clone the entry already holds, as insert does.
Assign_KeepExisting(map, h) ==
  IF map[h.id] # NullPtr THEN map ELSE [map EXCEPT ![h.id] = <<Clone(h, h.id)>>]

\* The map after m_settings[key] = SettingPtr(setting->Clone(key)).
Assign(map, h) == [map EXCEPT ![h.id] = <<Clone(h, h.id)>>]

\* ... = SettingPtr(setting->Clone(setting->GetId()));
OnSettingChanged_Assign(t) ==
  /\ pc[t] = "osc_assign"
  /\ m_settings' = Assign(m_settings, setting[t][1])
  /\ Release(t)
  /\ pc' = [pc EXCEPT ![t] = "return"]
  /\ UNCHANGED <<registry, handlerRegistered, callbackRegistered, ctorNames,
                 locals, calls, regChanges>>

\* ------------------------------------------------------- typed accessors

Accessors == {"GetBoolValue", "GetIntValue", "GetStringValue"}

\* What a call of an accessor of the given type and default can return from the
\* map: settingIt = m_settings.find(name); if found and its GetType() is the
\* accessor's type, the dynamic_pointer_cast to that type's class succeeds and
\* its GetValue() is returned; otherwise the default.  An entry holding a null
\* pointer is dereferenced: undefined behaviour, any value may come back.
FindValue(map, name, type, default) ==
  IF name \in DOMAIN map
  THEN IF map[name] = NullPtr
       THEN {<<v>> : v \in ValuesOf(type)}
       ELSE IF map[name][1].type = type
            THEN {<<map[name][1].value>>}
            ELSE {<<default>>}
  ELSE {<<default>>}

GetBoolValue(map, name) == FindValue(map, name, "Boolean", FALSE)

\* Faulty variant: the integer accessor's default is 0.
GetIntValue_ZeroDefault(map, name) == FindValue(map, name, "Integer", 0)

GetIntValue(map, name) == FindValue(map, name, "Integer", -1)

GetStringValue(map, name) == FindValue(map, name, "String", "")

\* The owning subsystem calls an accessor of the constructed cache.
Get_Call(t) ==
  /\ NextCaller(t)
  /\ pc[Owner] = "alive"
  /\ \E a \in Accessors : op' = [op EXCEPT ![t] = a]
  /\ \E name \in Ids : settingName' = [settingName EXCEPT ![t] = name]
  /\ pc' = [pc EXCEPT ![t] = "get_lock"]
  /\ calls' = calls + 1
  /\ UNCHANGED <<registry, handlerRegistered, callbackRegistered, ctorNames,
                 m_settings, m_critSection, settingNames, setting, ret, regChanges>>

\* Faulty variant: the accessor goes on to its find without taking the lock.
Get_NoLock(t) ==
  /\ pc[t] = "get_lock"
  /\ pc' = [pc EXCEPT ![t] = "get_find"]
  /\ UNCHANGED <<registry, handlerRegistered, callbackRegistered, ctorNames,
                 m_settings, m_critSection, locals, calls, regChanges>>

\* CSingleLock lock(m_critSection);
Get_Lock(t) ==
  /\ pc[t] = "get_lock"
  /\ Acquire(t)
  /\ pc' = [pc EXCEPT ![t] = "get_find"]
  /\ UNCHANGED <<registry, handlerRegistered, callbackRegistered, ctorNames,
                 m_settings, locals, calls, regChanges>>

\* Faulty variant: the lookup is made with m_settings[name], which inserts a missing key.
AfterFind_Index(map, name) == Index(map, name)

\* The map after m_settings.find(name) in a const member function: unchanged.
AfterFind(map, name) == map

\* The find, the type test, the cast and the return (which releases the lock).
Get_Find(t) ==
  /\ pc[t] = "get_find"
  /\ m_settings' = AfterFind(m_settings, settingName[t])
  /\ \E r \in (CASE op[t] = "GetBoolValue" -> GetBoolValue(m_settings, settingName[t])
                 [] op[t] = "GetIntValue" -> GetIntValue(m_settings, settingName[t])
                 [] OTHER -> GetStringValue(m_settings, settingName[t])) :
       ret' = [ret EXCEPT ![t] = r]
  /\ Release(t)
  /\ pc' = [pc EXCEPT ![t] = "return"]
  /\ UNCHANGED <<registry, handlerRegistered, callbackRegistered, ctorNames,
                 op, settingName, settingNames, setting, calls, regChanges>>

\* --------------------------------------- CPVRSettings::MarginTimeFiller

\* The decimal digit d as a character.
Digit(d) ==
  CASE d = 0 -> "0" [] d = 1 -> "1" [] d = 2 -> "2" [] d = 3 -> "3" [] d = 4 -> "4"
    [] d = 5 -> "5" [] d = 6 -> "6" [] d = 7 -> "7" [] d = 8 -> "8" [] OTHER -> "9"

\* The conversion %i of a non-negative int: its decimal digits, no leading zero.
RECURSIVE Decimal(_)
Decimal(n) == IF n < 10 THEN Digit(n) ELSE Decimal(n \div 10) \o Digit(n % 10)

\* StringUtils::Format(g_localizeStrings.Get(14044).c_str(), iValue), the
\* localized string 14044 being "%i min".
Format(iValue) ==
  (IF iValue < 0 THEN "-" \o Decimal(-iValue) ELSE Decimal(iValue)) \o " min"

\* static const int marginTimeValues[], in minutes.
marginTimeValues == <<0, 1, 3, 5, 10, 15, 20, 30, 60, 90, 120, 180>>

\* sizeof(marginTimeValues) / sizeof(int)
marginTimeValuesCount == Len(marginTimeValues)

\* std::make_pair(label, iValue)
MakePair(label, iValue) == <<label, iValue>>

\* for (i = 0; i < count; ++i) list.push_back(make_pair(Format(...), iValue)):
\* the list after the iterations from i on, counting from 1.
RECURSIVE PushBackFrom(_, _, _)
PushBackFrom(lst, i, count) ==
  IF i > count THEN lst
  ELSE PushBackFrom(Append(lst, MakePair(Format(marginTimeValues[i]), marginTimeValues[i])),
                    i + 1, count)

\* Faulty variant: the entries are appended to the list as it was handed in.
MarginTimeFiller_NoClear(lst, cur) ==
  [list |-> PushBackFrom(lst, 1, marginTimeValuesCount), current |-> cur]

\* The in-out parameters after MarginTimeFiller(setting, list, current, data):
\* list.clear(), then the loop; current is not written.
MarginTimeFiller(lst, cur) ==
  [list |-> PushBackFrom(<<>>, 1, marginTimeValuesCount), current |-> cur]

\* The entries a list may hold when the dialog hands it to the filler.
ListEntries == {MakePair("7 min", 7), MakePair("0 min", 0)}

\* The lists the dialog may hand to the filler.
PriorLists ==
  UNION {[1..n -> ListEntries] : n \in 0..MaxListLen}

\* The values of current the dialog may hand to the filler.
CurrentValues == {0, 7}

\* The settings dialog asks for the options of a margin time setting.
MarginTimeFiller_Call ==
  /\ list' = MarginTimeFiller(list, current).list
  /\ current' = MarginTimeFiller(list, current).current
  /\ listBefore' = <<list>>
  /\ UNCHANGED <<enabledClients, isVisible>>
  /\ UNCHANGED cacheVars

\* --------------------------------------- CPVRSettings::IsSettingVisible

\* CSettings::SETTING_PVRMANAGER_USEBACKENDCHANNELNUMBERS
SETTING_PVRMANAGER_USEBACKENDCHANNELNUMBERS == "pvrmanager.usebackendchannelnumbers"

\* CSettings::SETTING_PVRMANAGER_CLIENTPRIORITIES
SETTING_PVRMANAGER_CLIENTPRIORITIES == "pvrmanager.clientpriorities"

\* CServiceBroker::GetPVRManager().Clients()->EnabledClientAmount()
EnabledClientAmount == enabledClients

\* Faulty variant: the first setting is visible with one client or more.
IsSettingVisible_AtLeastOne(condition, value, ptr, data) ==
  IF ptr = NullPtr THEN FALSE
  ELSE IF ptr[1].id = SETTING_PVRMANAGER_USEBACKENDCHANNELNUMBERS
       THEN EnabledClientAmount >= 1
  ELSE IF ptr[1].id = SETTING_PVRMANAGER_CLIENTPRIORITIES
       THEN EnabledClientAmount > 1
  ELSE TRUE

\* IsSettingVisible(condition, value, setting, data)
IsSettingVisible(condition, value, ptr, data) ==
  IF ptr = NullPtr THEN FALSE
  ELSE IF ptr[1].id = SETTING_PVRMANAGER_USEBACKENDCHANNELNUMBERS
       THEN EnabledClientAmount = 1
  ELSE IF ptr[1].id = SETTING_PVRMANAGER_CLIENTPRIORITIES
       THEN EnabledClientAmount > 1
  ELSE TRUE

\* The settings the dialog may ask about: the two the condition names and two
\* others, one of them a setting the cache holds.
DialogSettings ==
  {[id |-> id, type |-> "Boolean", value |-> TRUE] :
     id \in {SETTING_PVRMANAGER_USEBACKENDCHANNELNUMBERS,
              SETTING_PVRMANAGER_CLIENTPRIORITIES, "b", "pvrmanager.other"}}

\* The condition and value strings of the settings definition.
ConditionStrings == {"", "pvrsettingvisible"}
ValueStrings == {"", "true"}

\* The settings dialog evaluates the visibility condition of a setting.
IsSettingVisible_Call ==
  /\ \E condition \in ConditionStrings, value \in ValueStrings,
        ptr \in {NullPtr} \cup {<<s>> : s \in DialogSettings} :
       isVisible' = <<[condition |-> condition, value |-> value, setting |-> ptr,
                       clients |-> EnabledClientAmount,
                       ret |-> IsSettingVisible(condition, value, ptr, NullPtr)]>>
  /\ UNCHANGED <<enabledClients, list, current, listBefore>>
  /\ UNCHANGED cacheVars

\* A PVR client is enabled or disabled.
Clients_Change ==
  /\ \E n \in {enabledClients - 1, enabledClients + 1} :
       /\ n \in 0..MaxClients
       /\ enabledClients' = n
  /\ UNCHANGED <<list, current, listBefore, isVisible>>
  /\ UNCHANGED cacheVars

\* ----------------------------------------------------------- specification

\* How the find of an accessor of the given type ends on the map.
HowFound(map, name, type) ==
  IF name \notin DOMAIN map THEN "absent"
  ELSE IF map[name] = NullPtr THEN "null_entry"
  ELSE IF map[name][1].type = type THEN "found"
  ELSE "wrong_kind"

\* SettingType an accessor asks for.
TypeOf(accessor) ==
  CASE accessor = "GetBoolValue" -> "Boolean"
    [] accessor = "GetIntValue" -> "Integer"
    [] OTHER -> "String"

\* The history variables after a step of actor (a thread, or "registry").
History(actor) ==
  /\ scenario' = scenario
  /\ UNCHANGED guiVars
  /\ notified' = (notified \/ (actor \in Workers /\ pc[actor] = "idle"
                               /\ op'[actor] \in {"OnSettingsLoaded", "OnSettingChanged"}))
  /\ ctorSeen' =
       IF actor = Owner /\ pc[Owner] = "init_loop" /\ settingNames[Owner] # {}
       THEN [ctorSeen EXCEPT ![First(settingNames[Owner])] = <<setting'[Owner]>>]
       ELSE IF notified' /\ pc'[Owner] \in {"alive", "dtor_handler", "dtor_end"}
            THEN [id \in Ids |-> <<>>]
            ELSE ctorSeen
  /\ lastStored' =
       IF actor = "registry" THEN lastStored
       ELSE IF pc[actor] = "init_insert"
            THEN IF settingName[actor] \in DOMAIN m_settings THEN lastStored
                 ELSE [lastStored EXCEPT ![settingName[actor]] =
                         <<Clone(setting[actor][1], settingName[actor])>>]
       ELSE IF pc[actor] = "osc_assign"
            THEN [lastStored EXCEPT ![setting[actor][1].id] =
                    <<Clone(setting[actor][1], setting[actor][1].id)>>]
       ELSE IF pc[actor] = "osl_clear" THEN [id \in Ids |-> NullPtr]
       ELSE lastStored
  /\ quiet' = [t \in Workers |->
                 IF t = actor /\ pc[t] = "idle" THEN op'[t] = "OnSettingsLoaded"
                 ELSE IF t = actor /\ pc'[t] = "idle" THEN FALSE
                 ELSE quiet[t] /\ t = actor]
  /\ before' = [t \in Workers |->
                  IF t = actor /\ pc[t] = "idle" /\ op'[t] = "OnSettingsLoaded"
                    THEN m_settings
                  ELSE IF t = actor /\ pc[t] = "osc_lock" THEN m_settings
                  ELSE IF t = actor /\ pc[t] = "osc_assign" THEN EmptyMap
                  ELSE IF op'[t] = "OnSettingsLoaded" /\ ~quiet'[t] THEN EmptyMap
                  ELSE IF pc'[t] = "idle" THEN EmptyMap
                  ELSE before[t]]
  /\ how' = [t \in Workers |->
               IF t = actor /\ pc[t] = "get_find"
                 THEN HowFound(m_settings, settingName[t], TypeOf(op[t]))
               ELSE IF pc'[t] = "idle" THEN ""
               ELSE how[t]]
  /\ reloadKeys' =
       IF actor \notin Workers THEN reloadKeys
       ELSE IF pc[actor] = "idle" /\ op'[actor] = "OnSettingsLoaded"
            THEN IF \E u \in Workers : op[u] = "OnSettingsLoaded" THEN reloadKeys
                 ELSE <<DOMAIN m_settings>>
       ELSE IF \/ pc[actor] = "init_loop" /\ pc'[actor] = "init_loop"
               \/ pc[actor] = "osc_index"
               \/ \A u \in Workers : op'[u] # "OnSettingsLoaded"
            THEN <<>>
       ELSE reloadKeys
  /\ raced' = [u \in Workers |->
                 IF actor \notin Workers THEN raced[u]
                 ELSE IF actor = u /\ pc[u] = "osc_assign"
                   THEN {t \in Workers \ {u} :
                           /\ op[t] = "OnSettingsLoaded"
                           /\ \/ /\ pc[t] = "init_loop"
                                 /\ setting[u][1].id \in settingNames[t]
                              \/ /\ pc[t] = "init_lock"
                                 /\ setting[u][1].id \in settingNames[t] \cup {settingName[t]}}
                 ELSE IF pc'[u] = "idle" \/ raced[u] = {} THEN {}
                 ELSE IF pc[actor] = "osl_clear" THEN {}
                 ELSE IF pc[actor] = "osc_assign" /\ setting[actor][1].id = setting[u][1].id
                   THEN {}
                 ELSE raced[u]]

RegistryStep ==
  \/ \E id \in Ids : Registry_SetValue(id)
  \/ \E id \in Ids : Registry_Define(id)

CtorStep ==
  \/ Ctor_RegisterSettingsHandler
  \/ Ctor_RegisterCallback

OwnerStep ==
  \/ CtorStep
  \/ Dtor_UnregisterCallback
  \/ Dtor_UnregisterSettingsHandler

InitStep(t) ==
  \/ Init_GetSetting(t)
  \/ Init_Lock(t)
  \/ Init_Insert(t)
  \/ Init_Return(t)

NotifyStep(t) ==
  \/ OnSettingChanged_Call(t)
  \/ OnSettingChanged_Lock(t)
  \/ OnSettingChanged_Index(t)
  \/ OnSettingChanged_Assign(t)
  \/ Get_Call(t)
  \/ Get_Lock(t)
  \/ Get_Find(t)
  \/ Return(t)

WorkerStep(t) ==
  \/ OnSettingsLoaded_Call(t)
  \/ OnSettingsLoaded_Lock(t)
  \/ OnSettingsLoaded_Clear(t)
  \/ NotifyStep(t)

Next ==
  \/ RegistryStep /\ History("registry")
  \/ OwnerStep /\ History(Owner)
  \/ \E t \in Threads : InitStep(t) /\ History(t)
  \/ \E t \in Workers : WorkerStep(t) /\ History(t)

Spec == Init /\ [][Next]_vars

NextNotify ==
  \/ CtorStep /\ History(Owner)
  \/ InitStep(Owner) /\ History(Owner)
  \/ \E t \in Workers : NotifyStep(t) /\ History(t)

SpecNotify == InitNotify /\ [][NextNotify]_vars

\* The steps a thread takes once it is inside a member function: every step
\* but the calls, which are the callers' to make or not.
Progress(t) ==
  \/ InitStep(t)
  \/ t = Owner /\ CtorStep
  \/ OnSettingsLoaded_Lock(t)
  \/ OnSettingsLoaded_Clear(t)
  \/ OnSettingChanged_Lock(t)
  \/ OnSettingChanged_Index(t)
  \/ OnSettingChanged_Assign(t)
  \/ Get_Lock(t)
  \/ Get_Find(t)
  \/ Return(t)

NextFair ==
  \/ CtorStep /\ History(Owner)
  \/ \E t \in Threads : InitStep(t) /\ History(t)
  \/ \E t \in Workers : WorkerStep(t) /\ History(t)

\* The reloads: OnSettingsLoaded calls and the Init each of them runs.
ReloadStep(t) ==
  \/ OnSettingsLoaded_Call(t)
  \/ OnSettingsLoaded_Lock(t)
  \/ OnSettingsLoaded_Clear(t)
  \/ Return(t)

NextReload ==
  \/ CtorStep /\ History(Owner)
  \/ \E t \in Threads : InitStep(t) /\ History(t)
  \/ \E t \in Workers : ReloadStep(t) /\ History(t)

SpecReload == InitReload /\ [][NextReload]_vars

\* The scheduler lets every thread that can take a step take one eventually; a
\* thread waiting for the lock gets it once the lock stays free.
Fairness == \A t \in Threads : WF_vars(Progress(t) /\ History(t))

SpecFair == InitFair /\ [][NextFair]_vars /\ Fairness

\* A settings dialog calls the static member functions with any list, any
\* current and any number of enabled clients.
InitGUI ==
  /\ scenario = "gui"
  /\ InitCommon
  /\ enabledClients \in 0..MaxClients
  /\ list \in PriorLists
  /\ current \in CurrentValues
  /\ listBefore = <<>>
  /\ isVisible = <<>>

NextGUI ==
  \/ MarginTimeFiller_Call
  \/ IsSettingVisible_Call
  \/ Clients_Change

SpecGUI == InitGUI /\ [][NextGUI]_vars

\* ------------------------------------------------------------------ claims

\* The pointer ptr points to a setting named id with the type and value of s.
CopyOf(ptr, s, id) ==
  /\ ptr # NullPtr
  /\ ptr[1].id = id
  /\ ptr[1].type = s.type
  /\ ptr[1].value = s.value

\* The step in which the accessor call of t finds (or misses) its entry.
Finds(t) == pc[t] = "get_find" /\ pc'[t] = "return"

\* C1: an accessor whose find meets an entry of its own type returns the value
\* of the clone last stored for its identifier by Init or OnSettingChanged (the
\* last mutation of that entry completed under the lock), and no other value.
C1_ReturnsLastStoredClone ==
  [][\A t \in Workers :
       (Finds(t) /\ how'[t] = "found")
         => /\ lastStored[settingName[t]] # NullPtr
            /\ lastStored[settingName[t]][1].id = settingName[t]
            /\ ret'[t] = <<lastStored[settingName[t]][1].value>>]_vars

\* The integer accessor has returned -1, the value of the clone an
\* OnSettingChanged stored over the clone Init had made of the registry's 5.
C1_Witness ==
  \E t, u \in Workers :
    /\ pc[t] = "return"
    /\ op[t] = "GetIntValue"
    /\ how[t] = "found"
    /\ ret[t] = <<-1>>
    /\ regChanges = 0
    /\ op[u] = "OnSettingChanged"
    /\ pc[u] = "return"
    /\ setting[u] = <<[id |-> "i", type |-> "Integer", value |-> -1]>>

\* C2: an accessor whose find meets an entry of another type returns its type's
\* default: false, -1, the empty string.
C2_WrongKindReturnsDefault ==
  \A t \in Workers :
    (pc[t] = "return" /\ how[t] = "wrong_kind")
      => /\ op[t] = "GetBoolValue" => ret[t] = <<FALSE>>
         /\ op[t] = "GetIntValue" => ret[t] = <<-1>>
         /\ op[t] = "GetStringValue" => ret[t] = <<"">>

\* The integer accessor has returned from a find that met the Boolean entry.
C2_Witness ==
  \E t \in Workers :
    /\ pc[t] = "return"
    /\ op[t] = "GetIntValue"
    /\ how[t] = "wrong_kind"
    /\ settingName[t] = "b"
    /\ "b" \in DOMAIN m_settings

\* C3: an accessor whose find meets no entry returns its type's default, and
\* the call leaves the map as it was: no key added, no entry changed.
C3_AbsentReturnsDefaultNoEffect ==
  [][\A t \in Workers :
       (Finds(t) /\ how'[t] = "absent")
         => /\ op[t] = "GetBoolValue" => ret'[t] = <<FALSE>>
            /\ op[t] = "GetIntValue" => ret'[t] = <<-1>>
            /\ op[t] = "GetStringValue" => ret'[t] = <<"">>
            /\ m_settings' = m_settings]_vars

\* The string accessor has returned from a find that met no entry, other
\* entries being in the map.
C3_Witness ==
  \E t \in Workers :
    /\ pc[t] = "return"
    /\ op[t] = "GetStringValue"
    /\ how[t] = "absent"
    /\ settingName[t] \notin DOMAIN m_settings
    /\ DOMAIN m_settings # {}

\* Init has returned to the constructor (which may since have returned too, and
\* the destructor run).
InitDone == pc[Owner] \notin {"init_loop", "init_lock", "init_insert"}

\* The constructor's Init looked id up and the registry knew it.
CtorFound(id) == ctorSeen[id] # <<>> /\ ctorSeen[id][1] # NullPtr

\* The step in which the constructor returns.
CtorReturns == pc[Owner] = "ctor_callback" /\ pc'[Owner] = "alive"

C5_KeysAreTheFoundNames ==
  (InitDone /\ ~notified)
    => /\ \A id \in ctorNames : ctorSeen[id] # <<>>
       /\ DOMAIN m_settings = {id \in ctorNames : CtorFound(id)}

\* The constructor has returned: the lookup of "b" failed, "i", which comes
\* after it, is in the cache.
C5_Witness ==
  /\ pc[Owner] = "alive"
  /\ ~notified
  /\ "b" \in ctorNames
  /\ ctorSeen["b"] = <<NullPtr>>
  /\ DOMAIN m_settings = {"i"}

\* The step in which the OnSettingChanged call of t assigns its entry.
Assigns(t) == pc[t] = "osc_assign" /\ pc'[t] = "return"

\* C6: OnSettingChanged(h), h not null, leaves the map as it found it when it
\* took the lock, but for the entry of h's identifier, which holds a clone of h.
C6_ReplacesExactlyOneEntry ==
  [][\A t \in Workers :
       Assigns(t)
         => /\ DOMAIN m_settings' = DOMAIN before[t] \cup {setting[t][1].id}
            /\ \A k \in DOMAIN before[t] \ {setting[t][1].id} :
                 m_settings'[k] = before[t][k]
            /\ CopyOf(m_settings'[setting[t][1].id], setting[t][1],
                      setting[t][1].id)]_vars

\* An OnSettingChanged has replaced the value of the entry of "i", the entry
\* of "b" being in the map.
C6_Witness ==
  \E t \in Workers :
    /\ pc[t] = "return"
    /\ op[t] = "OnSettingChanged"
    /\ setting[t] = <<[id |-> "i", type |-> "Integer", value |-> -1]>>
    /\ m_settings["i"] = setting[t]
    /\ regChanges = 0
    /\ "b" \in DOMAIN m_settings

\* The OnSettingsLoaded call of t has completed and nothing else (no other
\* thread, no registry change) has acted since it was made; before[t] is the
\* map as it was when the call was made.
ReloadedAlone(t) == pc[t] = "return" /\ op[t] = "OnSettingsLoaded" /\ quiet[t]

\* Every entry of the map is a clone of the setting the registry now holds
\* under its key.
Fresh(map) ==
  \A k \in DOMAIN map :
    registry[k] # NullPtr /\ CopyOf(map[k], registry[k][1], k)

\* C7 as claimed: a reload during which the registry is not changed and no other
\* operation acts leaves the map exactly as it was before the reload.
C7_Original ==
  \A t \in Workers : ReloadedAlone(t) => m_settings = before[t]

\* C7 amended: such a reload leaves the map exactly as it was before if, before
\* the reload, every entry was a clone of the registry's current setting for
\* its key.
C7_ReloadOfFreshMapIsIdentity ==
  \A t \in Workers :
    (ReloadedAlone(t) /\ Fresh(before[t])) => m_settings = before[t]

\* A reload has reproduced a map of two entries.
C7_Witness ==
  \E t \in Workers :
    /\ ReloadedAlone(t)
    /\ Fresh(before[t])
    /\ DOMAIN before[t] = {"b", "i"}
    /\ m_settings = before[t]

\* C8 as claimed: after a reload with no concurrent operation the cache holds,
\* for every identifier of the set requested at construction that the registry
\* knows, an entry with the registry's current value.
C8_Original ==
  \A t \in Workers :
    ReloadedAlone(t)
      => \A id \in ctorNames :
           registry[id] # NullPtr
             => /\ id \in DOMAIN m_settings
                /\ CopyOf(m_settings[id], registry[id][1], id)

\* C8 amended: the reload re-initializes the cache from the keys it held when
\* the reload began: afterwards its keys are those of these keys that the
\* registry knows, each with a clone of the registry's current setting.
C8_ReloadsTheKeysItHeld ==
  \A t \in Workers :
    ReloadedAlone(t)
      => /\ DOMAIN m_settings = {id \in DOMAIN before[t] : registry[id] # NullPtr}
         /\ \A id \in DOMAIN m_settings :
              CopyOf(m_settings[id], registry[id][1], id)

\* A reload has completed without an entry for "b", which was requested at
\* construction, was unknown then and is known to the registry now; the entry
\* of "i" holds the registry's value, which had changed since it was cached.
C8_Witness ==
  \E t \in Workers :
    /\ ReloadedAlone(t)
    /\ "b" \in ctorNames
    /\ registry["b"] # NullPtr
    /\ "b" \notin DOMAIN m_settings
    /\ "i" \in DOMAIN before[t]
    /\ m_settings["i"] = registry["i"]

\* The type default an accessor call of t returns when it finds no value.
ReturnsDefault(t) ==
  /\ op[t] = "GetBoolValue" => ret'[t] = <<FALSE>>
  /\ op[t] = "GetIntValue" => ret'[t] = <<-1>>
  /\ op[t] = "GetStringValue" => ret'[t] = <<"">>

\* C9: whatever OnSettingChanged calls and accessor calls interleave, the entry
\* an accessor finds is never one an assignment is half way through (a key
\* whose pointer is still null): it is a whole clone stored under that very
\* identifier, the accessor returns its value, or the type default if the
\* entry is absent or of another type.
C9_NoTornRead ==
  [][\A t \in Workers :
       Finds(t)
         => /\ how'[t] # "null_entry"
            /\ settingName[t] \in DOMAIN m_settings
                 => /\ m_settings[settingName[t]] = lastStored[settingName[t]]
                    /\ m_settings[settingName[t]][1].id = settingName[t]
            /\ how'[t] = "found"
                 => ret'[t] = <<m_settings[settingName[t]][1].value>>
            /\ how'[t] \in {"absent", "wrong_kind"} => ReturnsDefault(t)]_vars

\* Three calls on three threads: an accessor waits for the lock while one
\* OnSettingChanged, holding it, has inserted the key the accessor asks for
\* and not yet assigned the clone, and another OnSettingChanged, for another
\* identifier, waits too.
C9_Witness ==
  \E t, u, v \in Workers :
    /\ pc[t] = "get_lock"
    /\ pc[u] = "osc_assign"
    /\ pc[v] = "osc_lock"
    /\ m_critSection = u
    /\ settingName[t] = setting[u][1].id
    /\ m_settings[settingName[t]] = NullPtr
    /\ setting[v][1].id # setting[u][1].id

\* A notification is delivered to the cache: a worker enters OnSettingsLoaded
\* or OnSettingChanged.
Delivered ==
  \E t \in Workers :
    pc[t] = "idle" /\ op'[t] \in {"OnSettingsLoaded", "OnSettingChanged"}

\* C10: the destructor first removes the registration of the change listener,
\* the bulk-reload handler still being registered, then that of the handler;
\* once both are removed no notification is delivered.
C10_UnregistersThenSilent ==
  [][/\ (pc[Owner] = "alive" /\ pc'[Owner] = "dtor_handler")
          => (callbackRegistered /\ ~callbackRegistered'
              /\ handlerRegistered /\ handlerRegistered')
     /\ (pc[Owner] = "dtor_handler" /\ pc'[Owner] = "dtor_end")
          => (~callbackRegistered' /\ handlerRegistered /\ ~handlerRegistered')
     /\ pc[Owner] = "dtor_end" => ~Delivered]_vars

\* The destructor has made both removals after notifications were delivered,
\* and a worker is free to take a call.
C10_Witness ==
  /\ pc[Owner] = "dtor_end"
  /\ ~callbackRegistered
  /\ ~handlerRegistered
  /\ notified
  /\ calls < MaxCalls
  /\ \E t \in Workers : pc[t] = "idle"

\* The positions at which a thread's next step reads or writes m_settings:
\* Init's insert, OnSettingsLoaded's key collection and clear, the two halves
\* of OnSettingChanged's assignment, an accessor's find and value read.
MapAccess == {"init_insert", "osl_clear", "osc_index", "osc_assign", "get_find"}

\* C13: a thread about to read or write the map holds the lock, so no two
\* threads are inside a map access at the same time.
C13_MapAccessUnderLock ==
  /\ \A t \in Threads : pc[t] \in MapAccess => m_critSection = t
  /\ Cardinality({t \in Threads : pc[t] \in MapAccess}) <= 1

\* A reload's Init holds the lock for its insert while an accessor call on
\* another thread waits for the lock.
C13_Witness ==
  \E t, u \in Workers :
    /\ pc[t] = "init_insert"
    /\ op[t] = "OnSettingsLoaded"
    /\ m_critSection = t
    /\ pc[u] = "get_lock"

\* C14: a thread in Init, the constructor's or a reload's, does not hold the
\* lock when it looks a name up in the registry nor between two entries: the
\* reload has released it after its collect-and-clear, and Init holds it only
\* from its lock statement to the end of the insert of the one entry.
C14_LookupsUnlocked ==
  \A t \in Threads :
    /\ pc[t] \in {"init_loop", "init_lock"} => m_critSection # t
    /\ (op[t] \in {"CPVRSettings", "OnSettingsLoaded"} /\ m_critSection = t)
         => pc[t] \in {"osl_clear", "init_insert"}

\* A reload that has inserted its first entry is about to look up its second
\* name while another thread holds the lock.
C14_Witness ==
  \E t, u \in Workers :
    /\ op[t] = "OnSettingsLoaded"
    /\ pc[t] = "init_loop"
    /\ settingNames[t] = {"i"}
    /\ "b" \in DOMAIN m_settings
    /\ m_critSection = u

\* The step in which the OnSettingsLoaded call of t collects the keys and
\* clears the map.
Clears(t) == pc[t] = "osl_clear" /\ pc'[t] = "init_loop"

\* C15: OnSettingChanged(h), h not null and its identifier not among the names
\* the cache was constructed with, leaves an entry for that identifier, the
\* key set growing by it unless an earlier notification had added it; a later
\* OnSettingsLoaded hands that identifier to Init with the other keys, and,
\* run undisturbed, ends with the identifier in the map, holding a clone of
\* the registry's setting, if the registry knows it, as for a requested name.
C15_UnrequestedIdIsKept ==
  [][\A t \in Workers :
       /\ (Assigns(t) /\ setting[t][1].id \notin ctorNames)
            => /\ setting[t][1].id \in DOMAIN m_settings'
               /\ setting[t][1].id \notin DOMAIN before[t]
                    => /\ DOMAIN m_settings' = DOMAIN before[t] \cup {setting[t][1].id}
                       /\ DOMAIN m_settings' # DOMAIN before[t]
       /\ Clears(t) => DOMAIN m_settings \ ctorNames \subseteq settingNames'[t]
       /\ ReloadedAlone(t)'
            => \A id \in DOMAIN before'[t] \ ctorNames :
                 registry'[id] # NullPtr
                   => /\ id \in DOMAIN m_settings'
                      /\ CopyOf(m_settings'[id], registry'[id][1], id)]_vars

\* A reload has completed with the entry of "s", which was not requested at
\* construction and which an OnSettingChanged had added: the entry now holds
\* the registry's value, not the one it held before the reload.
C15_Witness ==
  \E t \in Workers :
    /\ ReloadedAlone(t)
    /\ "s" \notin ctorNames
    /\ "s" \in DOMAIN before[t]
    /\ "s" \in DOMAIN m_settings
    /\ m_settings["s"] = registry["s"]
    /\ m_settings["s"] # before[t]["s"]

\* A step of the OnSettingChanged call that t makes with a null handle: its
\* entry or its return.
NullChangeStep(t) ==
  \/ pc[t] = "idle" /\ op'[t] = "OnSettingChanged" /\ setting'[t] = NullPtr
  \/ op[t] = "OnSettingChanged" /\ setting[t] = NullPtr /\ pc'[t] # pc[t]

\* C16: OnSettingChanged with a null handle does nothing: from its entry to its
\* return it does not take the lock (nor wait for it) and leaves the keys and
\* the values of the map as they are.
C16_NullHandleIsNoOp ==
  [][\A t \in Workers :
       NullChangeStep(t)
         => /\ m_settings' = m_settings
            /\ m_critSection' = m_critSection
            /\ m_critSection # t
            /\ pc'[t] \in {"return", "idle"}]_vars

\* An OnSettingChanged with a null handle has come to its return while
\* another thread holds the lock, the map holding entries.
C16_Witness ==
  \E t, u \in Workers :
    /\ op[t] = "OnSettingChanged"
    /\ setting[t] = NullPtr
    /\ pc[t] = "return"
    /\ m_critSection = u
    /\ u # t
    /\ DOMAIN m_settings # {}

\* The positions at which a thread's next step acquires the lock.
LockStatements == {"init_lock", "osl_lock", "osc_lock", "get_lock"}

\* C17: whatever the interleaving of accessor, OnSettingChanged and
\* OnSettingsLoaded calls, the threads being scheduled fairly: no thread comes
\* to a lock statement holding the lock, a lock that is held is released, an
\* operation that has started completes (the constructor returns, every call
\* of a worker returns).
C17_NoSelfDeadlockAndCompletes ==
  /\ [](\A t \in Threads : pc[t] \in LockStatements => m_critSection # t)
  /\ \A t \in Threads : (m_critSection = t) ~> (m_critSection # t)
  /\ \A t \in Workers : (pc[t] # "idle") ~> (pc[t] = "idle")
  /\ <>(pc[Owner] = "alive")

\* Both threads wait for the lock, a reload's Init for its insert and an
\* OnSettingChanged, while the lock is free.
C17_Witness ==
  \E t, u \in Workers :
    /\ op[t] = "OnSettingsLoaded"
    /\ pc[t] = "init_lock"
    /\ op[u] = "OnSettingChanged"
    /\ pc[u] = "osc_lock"
    /\ m_critSection = ""

\* An OnSettingsLoaded call in progress has still to insert the key k: k is
\* among the names its Init has to iterate, or is the name its Init has looked
\* up and is about to insert.
Pending(k) ==
  \E t \in Workers :
    /\ op[t] = "OnSettingsLoaded"
    /\ \/ k \in settingNames[t]
       \/ pc[t] \in {"init_lock", "init_insert"} /\ settingName[t] = k

\* C18: while OnSettingsLoaded calls, any number of them at a time, are in
\* progress and every lookup they make succeeds, every key the map held when
\* the first of them started is in the map or still to be inserted by one of
\* them, and the map holds no other key; so once all have completed, the keys
\* of the map are those it held before the first started.
C18_ConcurrentReloadsKeepKeys ==
  reloadKeys # <<>> =>
    /\ \A k \in reloadKeys[1] : k \in DOMAIN m_settings \/ Pending(k)
    /\ DOMAIN m_settings \subseteq reloadKeys[1]
    /\ (\A t \in Workers : op[t] = "OnSettingsLoaded" => pc[t] = "return")
         => DOMAIN m_settings = reloadKeys[1]

\* Three reloads that overlapped have completed; the map holds the two keys it
\* held before the first of them.
C18_Witness ==
  /\ reloadKeys = <<{"b", "i"}>>
  /\ \A t \in Workers : op[t] = "OnSettingsLoaded" /\ pc[t] = "return"
  /\ DOMAIN m_settings = {"b", "i"}

\* C19: OnSettingsLoaded is not atomic for the readers.  Its clear leaves the
\* map empty and the lock free, every key it held still to be looked up and
\* inserted again; and an accessor on another thread whose find comes before
\* the reloads in progress have inserted its identifier again (an identifier
\* the map held before them, of the accessor's type, which the registry knows)
\* finds no entry and returns the type default, not a value.  The witness
\* shows that such a find is reached.
C19_ReloadExposesClearedMap ==
  [][\A t \in Workers :
       /\ Clears(t)
            => /\ m_settings' = EmptyMap
               /\ m_critSection' = ""
               /\ settingNames'[t] = DOMAIN m_settings
       /\ ( /\ Finds(t)
            /\ reloadKeys # <<>>
            /\ settingName[t] \in reloadKeys[1]
            /\ settingName[t] \notin DOMAIN m_settings
            /\ registry[settingName[t]] # NullPtr
            /\ TypeOf(op[t]) = KindOf(settingName[t]) )
            => /\ Pending(settingName[t])
               /\ ReturnsDefault(t)]_vars

\* While a reload that has cleared the map has still to insert "i", which the
\* map held before it with the value 5 the registry has held all along, the
\* integer accessor on another thread has returned -1.
C19_Witness ==
  \E t, u \in Workers :
    /\ op[t] = "OnSettingsLoaded"
    /\ "i" \in settingNames[t]
    /\ reloadKeys # <<>>
    /\ "i" \in reloadKeys[1]
    /\ regChanges = 0
    /\ registry["i"] = <<[id |-> "i", type |-> "Integer", value |-> 5]>>
    /\ op[u] = "GetIntValue"
    /\ settingName[u] = "i"
    /\ pc[u] = "return"
    /\ how[u] = "absent"
    /\ ret[u] = <<-1>>
    /\ calls = 2

\* The step in which the Init that t runs makes its insert.
Inserts(t) == pc[t] = "init_insert" /\ pc'[t] = "init_loop"

\* C20: Init's insert leaves an entry the map already holds as it is.  So the
\* clone that an OnSettingChanged(h) stored for h's identifier after a reload
\* had cleared the map and before that reload's Init had inserted the
\* identifier is the entry the map holds from then on, through that Init's
\* insert for the identifier and when the reload has completed, no other clear
\* or assignment for the identifier having come in between.
C20_InitKeepsTheNotifiedClone ==
  [][/\ \A t \in Threads :
          (Inserts(t) /\ settingName[t] \in DOMAIN m_settings)
            => m_settings' = m_settings
     /\ \A u \in Workers :
          raced'[u] # {}
            => /\ setting'[u][1].id \in DOMAIN m_settings'
               /\ CopyOf(m_settings'[setting'[u][1].id], setting'[u][1],
                         setting'[u][1].id)]_vars

\* A reload has completed whose Init looked "i" up (5 in the registry) after
\* an OnSettingChanged had stored -1 for "i" in the map the reload had
\* cleared: the entry of "i" holds -1.
C20_Witness ==
  \E t, u \in Workers :
    /\ t \in raced[u]
    /\ op[t] = "OnSettingsLoaded"
    /\ pc[t] = "return"
    /\ op[u] = "OnSettingChanged"
    /\ setting[u] = <<[id |-> "i", type |-> "Integer", value |-> -1]>>
    /\ registry["i"] = <<[id |-> "i", type |-> "Integer", value |-> 5]>>
    /\ regChanges = 0
    /\ m_settings["i"] = setting[u]
    /\ DOMAIN m_settings = {"b", "i"}

\* ------------------------------------------------- claims of the dialog side

\* The result of the last IsSettingVisible call.
Shown == isVisible[1]

\* C11: IsSettingVisible returns false for a null handle; for the setting
\* "use backend channel numbers" it returns true iff exactly one client is
\* enabled; for the setting "client priorities" true iff more than one is; for
\* any other setting true, whatever the count, the condition and the value.
C11_VisibleByClientCount ==
  isVisible # <<>> =>
    /\ Shown.setting = NullPtr => Shown.ret = FALSE
    /\ Shown.setting # NullPtr =>
         LET id == Shown.setting[1].id
         IN /\ id = "pvrmanager.usebackendchannelnumbers"
                 => (Shown.ret <=> Shown.clients = 1)
            /\ id = "pvrmanager.clientpriorities"
                 => (Shown.ret <=> Shown.clients > 1)
            /\ id \notin {"pvrmanager.usebackendchannelnumbers",
                          "pvrmanager.clientpriorities"}
                 => Shown.ret = TRUE

\* With two clients enabled IsSettingVisible has returned false for the
\* setting "use backend channel numbers".
C11_Witness ==
  /\ isVisible # <<>>
  /\ Shown.setting # NullPtr
  /\ Shown.setting[1].id = "pvrmanager.usebackendchannelnumbers"
  /\ Shown.clients = 2
  /\ Shown.ret = FALSE

\* C12: whatever the list held and whatever current is, MarginTimeFiller
\* leaves the list with exactly 12 entries whose values are 0, 1, 3, 5, 10, 15,
\* 20, 30, 60, 90, 120, 180 in this order, each labelled with its minutes (so a
\* second call leaves the list of the first), and leaves current as it was.
C12_FillsTheTwelveMargins ==
  [][listBefore' = <<list>> =>
       /\ Len(list') = 12
       /\ [i \in 1..12 |-> list'[i][2]]
            = <<0, 1, 3, 5, 10, 15, 20, 30, 60, 90, 120, 180>>
       /\ [i \in 1..12 |-> list'[i][1]]
            = <<"0 min", "1 min", "3 min", "5 min", "10 min", "15 min", "20 min",
                "30 min", "60 min", "90 min", "120 min", "180 min">>
       /\ current' = current]_vars

\* MarginTimeFiller has been called on the list an earlier call had filled,
\* current being 7.
C12_Witness ==
  /\ listBefore # <<>>
  /\ Len(listBefore[1]) = 12
  /\ list = listBefore[1]
  /\ current = 7

====
